---- MODULE Spec2Model ----
(***************************************************************************)
(* A model of src/bot.py: the Telegram schedule bot.                       *)
(*                                                                         *)
(* main() reads the configuration, computes the rotation period, loads the *)
(* three data files into the module-level stores TIME_TABLE, LESSONS_LIST  *)
(* and SUBJECTS_DICT, and then runs the publish / retract loop over the    *)
(* day's lesson slots.                                                     *)
(*                                                                         *)
(* Conventions.                                                            *)
(*  - Python indices are 0-based; the sequences here are 1-based, so       *)
(*    Python's s[i] is s[i + 1].  Every index variable holds the Python    *)
(*    value.                                                               *)
(*  - An Optional value is a sequence of length at most one: None is <<>>  *)
(*    and a value v is <<v>>.                                              *)
(*  - Wall-clock instants are naturals.  Time may pass between any two     *)
(*    statements (action Tick) and need not pass at all, except across a   *)
(*    send_photo that succeeds: the upload is a round trip to the server,  *)
(*    and the clock reads later after it than before it.                   *)
(*  - An exception that leaves main() is recorded in exc and ends the run  *)
(*    with pc = "crashed"; a normal return of main() is pc = "done".       *)
(***************************************************************************)
EXTENDS Integers, Sequences, FiniteSets, TLC

(* ------------------------------ bounds -------------------------------- *)

\* Rows of the time-table file and columns of a weekday row.
MaxSlots == 2
\* The clock runs over 0..MaxTime; slot boundaries are instants of it.
MaxTime == 2
\* Ranges of the configuration values given to get_current_period.
MaxPeriods == 4
MaxDuration == 7
MaxDays == 15
\* Calls of load_data in a row, where it is exercised on its own.
MaxLoads == 2

VARIABLES
    pc,                     \* position in main()
    exc,                    \* the exception that ended main(), or "none"
    now,                    \* datetime.now()
    TIME_TABLE,             \* deque of rows, a row being <<start, end>>
    LESSONS_LIST,           \* deque of lesson names
    SUBJECTS_DICT,          \* the keys of the subject dictionary
    number_of_periods,      \* int(config["number_of_periods"])
    period_duration,        \* int(config["period_duration"])
    days_since_start_date,  \* (today - start_of_first_period).days
    current_period,         \* Optional[int]: the value get_current_period returned
    i,                      \* the counter of main's for loop
    loop_len,               \* len(LESSONS_LIST) as range() evaluated it
    next_lesson_index,      \* main's local
    subject,                \* main's local
    start_time,             \* main's local
    end_time,               \* main's local
    msg,                    \* Optional message id: the Message send_message returned
    log,                    \* the lines written to bot.log, in order
    calls,                  \* the calls made on the bot (send_photo, delete_message), in order
    loads                   \* what each call of load_data read of its files, in order

vars == <<pc, exc, now, TIME_TABLE, LESSONS_LIST, SUBJECTS_DICT, number_of_periods,
          period_duration, days_since_start_date, current_period, i, loop_len,
          next_lesson_index, subject, start_time, end_time, msg, log, calls,
          loads>>

storeVars == <<TIME_TABLE, LESSONS_LIST, SUBJECTS_DICT>>
configVars == <<number_of_periods, period_duration, days_since_start_date>>
localVars == <<i, loop_len, next_lesson_index, subject, start_time, end_time, msg>>

(* --------------------------- Status.log -------------------------------- *)

\* Status(is_success, text): the text is kept by its kind, not its interpolations.
Status(is_success, text) == [is_success |-> is_success, text |-> text]

\* Status.log appends one line (info or error) and returns is_success.
LogOf(status) == Append(log, status)

(* ------------------------ get_current_period --------------------------- *)

\* current_period_number = (days / period_duration) + 1 is a true division, so it
\* is a float; `current_period_number % n == 0` holds exactly when the quotient is
\* a whole number whose successor n divides.  (For day counts of calendar dates the
\* float quotient is whole only when period_duration divides days.)
period_number_is_multiple(days, duration, n) ==
    /\ days % duration = 0
    /\ ((days \div duration) + 1) % n = 0

\* The test of line 40 without its `or n == 1`.
scan_hit_without_fallback(days, duration, n) ==
    period_number_is_multiple(days, duration, n)

\* The test of line 40.
scan_hit(days, duration, n) ==
    period_number_is_multiple(days, duration, n) \/ n = 1

\* for n in range(number_of_periods, 0, -1): the first hit is returned; an empty
\* or exhausted range falls off the end of the function, which returns None.
RECURSIVE scan_periods(_, _, _)
scan_periods(n, days, duration) ==
    IF n < 1 THEN <<>>
    ELSE IF scan_hit(days, duration, n) THEN <<n>>
    ELSE scan_periods(n - 1, days, duration)

get_current_period(periods, duration, days) ==
    scan_periods(periods, days, duration)

(* --------------------------- the data files ---------------------------- *)

SeqsUpTo(S, n) == UNION {[1..k -> S] : k \in 0..n}

\* The lesson names a weekday row may hold; '' is "no class in this slot", and
\* "Art" is a lesson the subjects file has no row for.
LessonNames == {"", "Math", "Art"}

\* The names (column 0) of the rows of the subjects file.
SubjectRowNames == {"MATH"}

\* str.lower() on the names above.
lower(s) ==
    CASE s = "Math" -> "math"
      [] s = "MATH" -> "math"
      [] OTHER -> s

\* What csv.reader yields of the subjects file, by column 0.
SubjectFiles == SeqsUpTo(SubjectRowNames, 1)

\* The row of the period file whose number is today's weekday; a file with no
\* such row extends LESSONS_LIST by nothing, like an empty row.
WeekdayRows == SeqsUpTo(LessonNames, MaxSlots)

\* A row of the time-table file, after strptime and replace(): <<start, end>>.
\* The boundaries are instants after 0, the instant main() starts at; nothing
\* orders a row's end after its start, nor the rows among themselves.
TimeTableRows == (1..MaxTime) \X (1..MaxTime)
TimeTableFiles == SeqsUpTo(TimeTableRows, MaxSlots)
\* The rows read before a row that cannot be read or parsed.
TimeTablePrefixes == SeqsUpTo(TimeTableRows, MaxSlots - 1)

\* The exceptions load_data catches, and the text of the Status each becomes.
LoadErrors == {"csv.Error", "FileNotFoundError", "Exception"}

LoadErrorText(e) ==
    CASE e = "csv.Error" -> "Error reading CSV file"
      [] e = "FileNotFoundError" -> "File not found"
      [] OTHER -> "An unknown error has occurred"

\* Lines 73-80: every row read sets SUBJECTS_DICT[row[0].lower()].
subjects_after(rows) == SUBJECTS_DICT \cup {lower(rows[k]) : k \in DOMAIN rows}

\* Lines 82-86: LESSONS_LIST.extend(column) for the row of today's weekday.
lessons_after(row) == LESSONS_LIST \o row

\* Lines 88-95: TIME_TABLE.append(row_list) for every row.
time_table_after(rows) == TIME_TABLE \o rows

(* -------------------------------- main --------------------------------- *)

\* config["channel_id"]
ChannelId == "channel"

\* The configurations main() is run with in Spec (get_current_period is
\* exercised over its whole input range in SpecPeriod).
MainConfigs == {[periods |-> 2, duration |-> 7, days |-> 7]}

Crash(e) == pc' = "crashed" /\ exc' = e

\* `if not status.log(): raise Exception(status.text)`
LogAndRaise(status) == log' = LogOf(status) /\ Crash("Exception")

Init ==
    /\ pc = "config"
    /\ exc = "none"
    /\ now = 0
    /\ TIME_TABLE = <<>>
    /\ LESSONS_LIST = <<>>
    /\ SUBJECTS_DICT = {}
    /\ \E c \in MainConfigs :
         /\ number_of_periods = c.periods
         /\ period_duration = c.duration
         /\ days_since_start_date = c.days
    /\ current_period = <<>>
    /\ i = 0
    /\ loop_len = 0
    /\ next_lesson_index = 0
    /\ subject = ""
    /\ start_time = 0
    /\ end_time = 0
    /\ msg = <<>>
    /\ log = <<>>
    /\ calls = <<>>
    /\ loads = <<>>

\* Lines 156-160: load_config and the log of its Status.
ReadConfig ==
    /\ pc = "config"
    /\ \/ /\ log' = LogOf(Status(TRUE, "Config read successfully"))
          /\ pc' = "period"
          /\ exc' = exc
       \/ LogAndRaise(Status(FALSE, "Error reading configuration file"))
    /\ UNCHANGED <<now, storeVars, configVars, current_period, localVars, calls,
                   loads>>

\* Lines 162-168: the configuration keys are read and converted, then the period is
\* computed.  A missing key is a KeyError, a value int() or strptime rejects a
\* ValueError; neither is caught.  days_since_start_date is the day count line 37
\* takes from the datetime main() passes in.
ComputePeriod ==
    /\ pc = "period"
    /\ \/ /\ current_period' = get_current_period(number_of_periods, period_duration,
                                                   days_since_start_date)
          /\ pc' = "load"
          /\ exc' = exc
       \/ /\ \E e \in {"KeyError", "ValueError"} : Crash(e)
          /\ current_period' = current_period
    /\ UNCHANGED <<now, storeVars, configVars, localVars, log, calls, loads>>

\* The Status values load_data returns.
LoadStatuses ==
    {Status(TRUE, "Files were successfully loaded")}
        \cup {Status(FALSE, LoadErrorText(e)) : e \in LoadErrors}

\* A file that cannot be opened has had no row read; a csv.Error or another
\* exception (a short row, a time strptime rejects) comes after the rows before it.
ReadFails(e, rows) == e \in LoadErrors /\ (e = "FileNotFoundError" => rows = <<>>)

\* What one call of load_data reads is a record of the rows of the subjects file
\* (sf), the weekday's row of the period file (row) and the rows of the time-table
\* file (tt) it gets through, and of the exception that stops it (error), "none"
\* when none does.
\* The reads there are of subjects files SF, weekday rows WR and time-table files
\* TF, TP being the rows of a time-table file read before one that fails: all
\* three files, or an exception in the first, the second or the third, the files
\* after it not being opened.  An open() that fails has read no row.
PossibleReads(SF, WR, TF, TP) ==
    {r \in [error : {"none"} \cup LoadErrors, sf : SF, row : WR, tt : TF \cup TP] :
        \/ r.error = "none" /\ r.tt \in TF
        \/ r.error # "none" /\ r.row = <<>> /\ r.tt = <<>> /\ ReadFails(r.error, r.sf)
        \/ r.error # "none" /\ r.tt = <<>> /\ ReadFails(r.error, r.row)
        \/ r.error # "none" /\ r.tt \in TP /\ ReadFails(r.error, r.tt)}

\* The reads of the load main() makes.
MainReads == PossibleReads(SubjectFiles, WeekdayRows, TimeTableFiles, TimeTablePrefixes)

\* Lines 71-105.  The three files are read in order, each straight into its store;
\* the first exception ends the load with the stores as they are at that point.
load_data(status, read) ==
    /\ SUBJECTS_DICT' = subjects_after(read.sf)
    /\ LESSONS_LIST' = lessons_after(read.row)
    /\ TIME_TABLE' = time_table_after(read.tt)
    /\ status = IF read.error = "none"
                THEN Status(TRUE, "Files were successfully loaded")
                ELSE Status(FALSE, LoadErrorText(read.error))

\* Lines 173-174 with the raise left out.
LoadFailedContinues(status) ==
    /\ log' = LogOf(status)
    /\ pc' = "select"
    /\ exc' = exc

\* Lines 173-174: `if not status.log(): raise Exception(status.text)`.
LoadFailed(status) == LogAndRaise(status)

\* Lines 169-176: load_data, the log of its Status, and the range of the for loop.
LoadData ==
    /\ pc = "load"
    /\ \E read \in MainReads : \E status \in LoadStatuses :
         /\ load_data(status, read)
         /\ loads' = Append(loads, read)
         /\ IF status.is_success
            THEN /\ log' = LogOf(status)
                 /\ pc' = "select"
                 /\ exc' = exc
                 /\ i' = 0
                 /\ loop_len' = Len(LESSONS_LIST')
            ELSE /\ LoadFailed(status)
                 /\ UNCHANGED <<i, loop_len>>
    /\ UNCHANGED <<now, configVars, current_period, next_lesson_index, subject,
                   start_time, end_time, msg, calls>>

(* ----------------------- get_next_lesson_index ------------------------- *)

\* What a call ends with: a returned index, or the IndexError of LESSONS_LIST[i].
Returned(k) == [raised |-> FALSE, index |-> k]
Raised == [raised |-> TRUE, index |-> -1]

\* The test of line 50 without its `datetime.now() <= lesson[0]`.
lesson_is_next_any_time(t, k) == LESSONS_LIST[k + 1] # ""

\* The test of line 50 without its `LESSONS_LIST[i] != ''`.
lesson_is_next_any_name(t, k) == t <= TIME_TABLE[k + 1][1]

\* The test of line 50, once LESSONS_LIST[k] is known to exist.
lesson_is_next(t, k) == t <= TIME_TABLE[k + 1][1] /\ LESSONS_LIST[k + 1] # ""

\* Lines 48-53, from row k on, at the instant t.  `and` evaluates LESSONS_LIST[k]
\* only when the time test holds, and then raises IndexError if there is no such
\* element.
RECURSIVE scan_lessons(_, _)
scan_lessons(t, k) ==
    IF k >= Len(TIME_TABLE) THEN Returned(-1)
    ELSE IF t <= TIME_TABLE[k + 1][1] /\ k >= Len(LESSONS_LIST) THEN Raised
    ELSE IF k < Len(LESSONS_LIST) /\ lesson_is_next(t, k) THEN Returned(k)
    ELSE scan_lessons(t, k + 1)

get_next_lesson_index(t) == scan_lessons(t, 0)

\* A scan that consumes the rows it passes: both deques popped up to the row
\* the call returned.
stores_after_scan_consuming(r) ==
    <<SubSeq(TIME_TABLE, r.index + 1, Len(TIME_TABLE)),
      SubSeq(LESSONS_LIST, r.index + 1, Len(LESSONS_LIST))>>

\* TIME_TABLE and LESSONS_LIST when the call has returned r: enumerate() and the
\* subscript read the deques, and lines 48-53 assign to neither.
stores_after_scan(r) == <<TIME_TABLE, LESSONS_LIST>>

(* --------------------------- the main loop ----------------------------- *)

\* A pause that does not wait.
pause_until_returns_early(t) == TRUE

\* pause.until(t) returns once the clock has reached t, at once if it already has.
pause_until(t) == now >= t

\* A record of one call made on the bot.
BotCall(op, message_id, ok) ==
    [op |-> op, channel_id |-> ChannelId, message_id |-> message_id, name |-> subject,
     slot |-> next_lesson_index, at |-> now, ok |-> ok]

SentOk == {k \in DOMAIN calls : calls[k].op = "send_photo" /\ calls[k].ok}

\* The message_id of the Message a successful send_photo returns: one never given before.
NewMessageId == Cardinality(SentOk) + 1

\* datetime.now() once send_photo has returned its Message: later than when it was
\* called.  (Any more time it took is Tick's.)
now_after_send == now + 1

\* Lines 179-180 with a reload in place of the return: the day's stores are
\* dropped and main() starts over from the period.
NoSlotLeftReloads ==
    /\ pc' = "period"
    /\ TIME_TABLE' = <<>>
    /\ LESSONS_LIST' = <<>>
    /\ UNCHANGED <<SUBJECTS_DICT, current_period>>

\* Lines 179-180: get_next_lesson_index found no slot, and main() returns.
NoSlotLeft ==
    /\ pc' = "done"
    /\ UNCHANGED <<storeVars, current_period>>

\* Lines 176-183: the next iteration of the for loop, up to the first pause.
SelectLesson ==
    /\ pc = "select"
    /\ IF i >= loop_len
       THEN /\ pc' = "done"
            /\ UNCHANGED <<exc, next_lesson_index, subject, start_time, end_time,
                           storeVars, current_period>>
       ELSE LET r == get_next_lesson_index(now) IN
            IF r.raised
            THEN /\ Crash("IndexError")
                 /\ UNCHANGED <<next_lesson_index, subject, start_time, end_time,
                                storeVars, current_period>>
            ELSE /\ next_lesson_index' = r.index
                 /\ exc' = exc
                 /\ IF r.index < 0
                    THEN /\ NoSlotLeft
                         /\ UNCHANGED <<subject, start_time, end_time>>
                    ELSE /\ subject' = LESSONS_LIST[r.index + 1]
                         /\ start_time' = TIME_TABLE[r.index + 1][1]
                         /\ end_time' = TIME_TABLE[r.index + 1][2]
                         /\ pc' = "wait_start"
                         /\ TIME_TABLE' = stores_after_scan(r)[1]
                         /\ LESSONS_LIST' = stores_after_scan(r)[2]
                         /\ UNCHANGED <<SUBJECTS_DICT, current_period>>
    /\ UNCHANGED <<now, configVars, i, loop_len, msg, log, calls, loads>>

\* The exceptions send_message catches once the subject is found, and the text of
\* the Status each becomes.  The photo is opened before the bot is called.
PhotoErrors == {"FileNotFoundError", "OSError"}
SendErrors == {"ApiException", "Exception"}

SendErrorText(e) ==
    CASE e = "FileNotFoundError" -> "Photo file not found"
      [] e = "OSError" -> "Error opening photo file"
      [] e = "ApiException" -> "Error sending message"
      [] OTHER -> "An unknown error has occurred"

\* Lines 188-189 after a successful send, going on to the next slot at once.
AfterSendSkipsRetract == pc' = "select"

\* Lines 188-189 after a successful send: main() goes on to the pause of line 191.
AfterSend == pc' = "wait_end"

\* Lines 188-189 after a failed send, with the Status logged and no raise.
SendFailedContinues(status) ==
    /\ log' = LogOf(status)
    /\ pc' = "select"
    /\ exc' = exc

\* Lines 188-189 after a failed send: the Status is logged and main() raises.
SendFailed(status) == LogAndRaise(status)

\* Lines 185-189: the pause until the slot's start, send_message and the log of
\* its Status.
PublishLesson ==
    /\ pc = "wait_start"
    /\ pause_until(start_time)
    /\ \/ /\ lower(subject) \notin SUBJECTS_DICT
          /\ SendFailed(Status(FALSE, "Subject not found in SUBJECTS_DICT"))
          /\ UNCHANGED <<msg, calls, now>>
       \/ /\ lower(subject) \in SUBJECTS_DICT
          /\ \E e \in PhotoErrors : SendFailed(Status(FALSE, SendErrorText(e)))
          /\ UNCHANGED <<msg, calls, now>>
       \/ /\ lower(subject) \in SUBJECTS_DICT
          /\ \E e \in SendErrors : SendFailed(Status(FALSE, SendErrorText(e)))
          /\ calls' = Append(calls, BotCall("send_photo", 0, FALSE))
          /\ UNCHANGED <<msg, now>>
       \/ /\ lower(subject) \in SUBJECTS_DICT
          /\ calls' = Append(calls, BotCall("send_photo", NewMessageId, TRUE))
          /\ msg' = <<NewMessageId>>
          /\ log' = LogOf(Status(TRUE, "Message was successfully sent"))
          /\ AfterSend
          /\ exc' = exc
          /\ now' = now_after_send
    /\ UNCHANGED <<storeVars, configVars, current_period, i, loop_len,
                   next_lesson_index, subject, start_time, end_time, loads>>

\* Lines 191-195 and 108-114: the pause until the slot's end, delete_message and
\* the log of its Status.  delete_message catches ApiException alone: any other
\* exception of the bot's call (a connection error, a timeout) leaves main()
\* without a Status or a log line.
RetractLesson ==
    /\ pc = "wait_end"
    /\ pause_until(end_time)
    /\ \/ /\ calls' = Append(calls, BotCall("delete_message", msg[1], TRUE))
          /\ log' = LogOf(Status(TRUE, "Message was successfully deleted"))
          /\ pc' = "select"
          /\ exc' = exc
          /\ i' = i + 1
       \/ /\ calls' = Append(calls, BotCall("delete_message", msg[1], FALSE))
          /\ LogAndRaise(Status(FALSE, "Error deleting message"))
          /\ i' = i
       \/ /\ calls' = Append(calls, BotCall("delete_message", msg[1], FALSE))
          /\ Crash("RequestException")
          /\ UNCHANGED <<log, i>>
    /\ UNCHANGED <<now, storeVars, configVars, current_period, loop_len,
                   next_lesson_index, subject, start_time, end_time, msg, loads>>

\* The clock advances.  It is read by get_next_lesson_index and by the two pauses,
\* so time that passes elsewhere in main() shows at the next of these.  Every slot
\* boundary is at most MaxTime, so nothing depends on the clock beyond it.
Tick ==
    /\ pc \in {"select", "wait_start", "wait_end"}
    /\ now < MaxTime
    /\ now' = now + 1
    /\ UNCHANGED <<pc, exc, storeVars, configVars, current_period, localVars, log,
                   calls, loads>>

Next ==
    \/ ReadConfig
    \/ ComputePeriod
    \/ LoadData
    \/ SelectLesson
    \/ PublishLesson
    \/ RetractLesson
    \/ Tick

Spec == Init /\ [][Next]_vars

(* ------------------- get_current_period on its own --------------------- *)

\* main() at line 166, for every configuration within the bounds: any number of
\* periods (none included), any duration of at least a day, and an anchor date up
\* to MaxDays days before or after today.
InitPeriod ==
    /\ pc = "period"
    /\ exc = "none"
    /\ now = 0
    /\ TIME_TABLE = <<>>
    /\ LESSONS_LIST = <<>>
    /\ SUBJECTS_DICT = {}
    /\ number_of_periods \in 0..MaxPeriods
    /\ period_duration \in 1..MaxDuration
    /\ days_since_start_date \in (0 - MaxDays)..MaxDays
    /\ current_period = <<>>
    /\ i = 0
    /\ loop_len = 0
    /\ next_lesson_index = 0
    /\ subject = ""
    /\ start_time = 0
    /\ end_time = 0
    /\ msg = <<>>
    /\ log = <<Status(TRUE, "Config read successfully")>>
    /\ calls = <<>>
    /\ loads = <<>>

NextPeriod == ComputePeriod

SpecPeriod == InitPeriod /\ [][NextPeriod]_vars

\* get_current_period has returned (main() is about to call load_data).
(* ------------------------- load_data on its own ------------------------ *)

\* load_data called again and again on the module's stores, as a daily rebuild
\* would call it: the stores are those the call before left, and each call's
\* Status is logged.  main() is where line 169 has it, and stays there.
RebuildReads ==
    PossibleReads(SubjectFiles, {<<>>, <<"Math">>}, {<<>>, <<<<1, 2>>>>}, {<<>>})

InitLoad ==
    /\ pc = "load"
    /\ exc = "none"
    /\ now = 0
    /\ TIME_TABLE = <<>>
    /\ LESSONS_LIST = <<>>
    /\ SUBJECTS_DICT = {}
    /\ \E c \in MainConfigs :
         /\ number_of_periods = c.periods
         /\ period_duration = c.duration
         /\ days_since_start_date = c.days
         /\ current_period = get_current_period(c.periods, c.duration, c.days)
    /\ i = 0
    /\ loop_len = 0
    /\ next_lesson_index = 0
    /\ subject = ""
    /\ start_time = 0
    /\ end_time = 0
    /\ msg = <<>>
    /\ log = <<Status(TRUE, "Config read successfully")>>
    /\ calls = <<>>
    /\ loads = <<>>

\* Lines 71-105 and 26-31: one call of load_data and the log of its Status.
Rebuild ==
    /\ pc = "load"
    /\ Len(loads) < MaxLoads
    /\ \E read \in RebuildReads : \E status \in LoadStatuses :
         /\ load_data(status, read)
         /\ loads' = Append(loads, read)
         /\ log' = LogOf(status)
    /\ UNCHANGED <<pc, exc, now, configVars, current_period, localVars, calls>>

NextLoad == Rebuild

SpecLoad == InitLoad /\ [][NextLoad]_vars

PeriodReturned == pc = "load"

(* ------------------------------ C6 .. C8 ------------------------------- *)

\* cycleIndex = floor(elapsedDays / periodDurationDays) + 1
CycleIndex == (days_since_start_date \div period_duration) + 1

\* The largest n in [1, numberOfPeriods] with cycleIndex mod n = 0.
LargestDividingPeriod ==
    CHOOSE n \in 1..number_of_periods :
        /\ CycleIndex % n = 0
        /\ \A m \in 1..number_of_periods : CycleIndex % m = 0 => m <= n

\* C6: for numberOfPeriods >= 1, periodDurationDays >= 1 and anchorDate <= today,
\* the period calculator returns the largest n in [1, numberOfPeriods] that divides
\* floor(elapsedDays / periodDurationDays) + 1, whether or not elapsedDays is a
\* multiple of periodDurationDays.
C6_ReturnsLargestDividingPeriod ==
    (PeriodReturned /\ number_of_periods >= 1 /\ days_since_start_date >= 0)
        => current_period = <<LargestDividingPeriod>>

\* C7: for numberOfPeriods >= 1, periodDurationDays >= 1 and anchorDate <= today,
\* the period calculator returns an integer in [1, numberOfPeriods]: the downward
\* scan ends with a value, at n = 1 at the latest.
C7_PeriodInRange ==
    (PeriodReturned /\ number_of_periods >= 1 /\ days_since_start_date >= 0)
        => /\ Len(current_period) = 1
           /\ current_period[1] \in 1..number_of_periods

\* The scan found no n above 1 and returned at n = 1.
C7_Witness ==
    /\ PeriodReturned
    /\ number_of_periods = 4
    /\ period_duration = 7
    /\ days_since_start_date = 15
    /\ current_period = <<1>>

\* C8: when the anchor date is later than today (a negative day count) the period
\* calculator reports a failure: it never returns a period number.
C8_NegativeDaysYieldNoPeriod ==
    (PeriodReturned /\ days_since_start_date < 0) => current_period = <<>>

(* ------------------------------ C1 .. C5 ------------------------------- *)

IsSend(k) == calls[k].op = "send_photo"
IsDelete(k) == calls[k].op = "delete_message"

\* The message ids sent and not yet deleted.
InFlight ==
    {calls[k].message_id : k \in SentOk}
        \ {calls[k].message_id : k \in {d \in DOMAIN calls : IsDelete(d) /\ calls[d].ok}}

\* C1: at most one delivery is in flight at any instant: between any two
\* successful Send calls there is a completed Delete of the message the first one
\* returned.
C1_OneDeliveryInFlight ==
    /\ Cardinality(InFlight) <= 1
    /\ \A a \in SentOk : \A b \in SentOk :
         a < b => \E d \in (a + 1)..(b - 1) :
                    /\ IsDelete(d)
                    /\ calls[d].ok
                    /\ calls[d].message_id = calls[a].message_id

\* Two slots have been published in one run.
C1_Witness == Cardinality(SentOk) >= 2

\* C2: for every slot that is published, Send is invoked no earlier than the
\* slot's start and Delete no earlier than the slot's end, and Delete is given the
\* message id the Send of the same slot returned and the same channel id.
C2_CallsAtSlotBoundaries ==
    \A k \in DOMAIN calls :
        /\ IsSend(k) => calls[k].at >= TIME_TABLE[calls[k].slot + 1][1]
        /\ IsDelete(k) =>
             /\ calls[k].at >= TIME_TABLE[calls[k].slot + 1][2]
             /\ k > 1
             /\ IsSend(k - 1)
             /\ calls[k - 1].ok
             /\ calls[k - 1].slot = calls[k].slot
             /\ calls[k - 1].message_id = calls[k].message_id
             /\ calls[k - 1].channel_id = calls[k].channel_id

\* A message has been retracted, after a wait: the clock stood before the slot's
\* start when the slot was selected.
C2_Witness ==
    \E k \in DOMAIN calls :
        /\ IsDelete(k)
        /\ calls[k].ok
        /\ calls[k].at > 1
        /\ TIME_TABLE[calls[k].slot + 1][1] < TIME_TABLE[calls[k].slot + 1][2]

\* get_next_lesson_index returns -1 at the instant t.
NoSlotAt(t) ==
    LET r == get_next_lesson_index(t) IN ~r.raised /\ r.index < 0

\* main() has returned from inside the loop, at line 180.
ReturnedNoSlot == pc = "done" /\ i < loop_len

LastLog == log[Len(log)]

\* C4: a Publisher failure is fatal and logged: after a failed call on the bot
\* (send or delete) the failure is the last line of the log, the process has
\* aborted, and no call on the bot follows the failed one.
C4_PublisherFailureLoggedAndFatal ==
    \A k \in DOMAIN calls :
        ~calls[k].ok =>
            /\ k = Len(calls)
            /\ pc = "crashed"
            /\ Len(log) > 0
            /\ ~LastLog.is_success

\* The last line of the log reports a subject missing from SUBJECTS_DICT.
LookupMissLogged ==
    /\ Len(log) > 0
    /\ LastLog = Status(FALSE, "Subject not found in SUBJECTS_DICT")

Min(S) == CHOOSE x \in S : \A y \in S : x <= y

\* The indices that have both a start and a name, a start not before t and a
\* name that is not empty.
FutureNamedSlots(t) ==
    {k \in 0..(Len(TIME_TABLE) - 1) :
        /\ k < Len(LESSONS_LIST)
        /\ t <= TIME_TABLE[k + 1][1]
        /\ LESSONS_LIST[k + 1] # ""}

FirstFutureNamedSlot(t) ==
    IF FutureNamedSlots(t) = {} THEN -1 ELSE Min(FutureNamedSlots(t))

\* C9: slot selection returns the smallest index i with now <= start(i) and a
\* non-empty name(i), and returns -1 exactly when no index satisfies both.
C9_SelectsFirstFutureNamedSlot ==
    [][(pc = "select" /\ i < loop_len /\ pc' # "select")
          => (pc' # "crashed" /\ next_lesson_index' = FirstFutureNamedSlot(now))]_vars

\* C10: Send is never invoked for a slot whose lesson name is empty: no slot with
\* an empty name is ever waited for, looked up or sent, wherever it stands in the
\* day and whatever the time.
C10_EmptyNameNeverSent ==
    /\ pc \in {"wait_start", "wait_end"} => subject # ""
    /\ \A k \in DOMAIN calls : calls[k].name # ""
    /\ LookupMissLogged => subject # ""

\* The second slot was published although the first, with an empty name, had a
\* start that was not earlier.
C10_Witness ==
    \E k \in SentOk :
        /\ calls[k].slot = 1
        /\ LESSONS_LIST[1] = ""
        /\ TIME_TABLE[1][1] >= TIME_TABLE[2][1]

(* -------------------------------- C11 ---------------------------------- *)

\* C11: within a day the slots Send is invoked for have strictly increasing start
\* times and indices: no slot is published twice, and none after a slot with a
\* later start.
C11_PublishedInAscendingOrder ==
    \A a \in DOMAIN calls : \A b \in DOMAIN calls :
        (a < b /\ IsSend(a) /\ IsSend(b))
            => /\ calls[a].slot < calls[b].slot
               /\ TIME_TABLE[calls[a].slot + 1][1] < TIME_TABLE[calls[b].slot + 1][1]

\* Two slots were published, the first of them one whose end is not after its
\* start (so that nothing but the clock kept it from being selected again).
C11_Witness ==
    \E a \in SentOk : \E b \in DOMAIN calls :
        /\ a < b
        /\ IsSend(b)
        /\ TIME_TABLE[calls[a].slot + 1][2] <= TIME_TABLE[calls[a].slot + 1][1]

(* -------------------------------- C12 ---------------------------------- *)

\* What the latest call of load_data read.
LastLoad == loads[Len(loads)]

\* load_data has just returned (this is asked of the step that runs it).
Loaded == loads' # loads

\* C12: rebuilding twice in a row from identical source data yields the same
\* Timetable and DaySchedule as rebuilding once, whatever the stores held before:
\* a successful load of what the successful load before it read changes neither.
C12_RebuildTwiceIsRebuildOnce ==
    [][(Loaded /\ loads # <<>> /\ LastLoad.error = "none" /\ LastLoad' = LastLoad)
          => (TIME_TABLE' = TIME_TABLE /\ LESSONS_LIST' = LESSONS_LIST)]_vars

(* -------------------------------- C13 ---------------------------------- *)

FirstLoadFailed == loads # <<>> /\ loads[1].error # "none"

\* C13: if the very first data load fails the process does not go on to
\* scheduling: the failure is logged and main() is left by the raise, with no
\* slot selected and no call of send_photo or delete_message, then or later.
C13_FailedFirstLoadEndsRun ==
    [][/\ FirstLoadFailed'
            => /\ pc' = "crashed"
               /\ ~LastLog'.is_success
               /\ calls' = <<>>
               /\ UNCHANGED <<next_lesson_index, subject, start_time, end_time>>
       /\ FirstLoadFailed => UNCHANGED vars]_vars

\* The first load failed at the time-table file, with a named slot already in
\* the stores that a selection would have returned.
C13_Witness ==
    /\ FirstLoadFailed
    /\ pc = "crashed"
    /\ get_next_lesson_index(now) = Returned(0)

(* -------------------------------- C14 ---------------------------------- *)

\* C14: a rebuild that fails part-way leaves the Timetable, the DaySchedule and
\* the Subject Catalog as they were before that load began.
C14_FailedRebuildLeavesStores ==
    [][(Loaded /\ LastLoad'.error # "none") => UNCHANGED storeVars]_vars

(* -------------------------------- C15 ---------------------------------- *)

\* The failure lines of the log.
FailureLines == {k \in DOMAIN log : ~log[k].is_success}

\* C15: every failure path (configuration, first load, lookup miss, failed
\* send or delete) writes exactly one failure line to the log before the process
\* terminates: no run has more than one failure line, and none ends by an
\* exception with no failure line.
C15_OneLogLinePerFailure ==
    /\ Cardinality(FailureLines) <= 1
    /\ pc = "crashed" => Cardinality(FailureLines) = 1

(* -------------------------------- C16 ---------------------------------- *)

\* C16: after every successful load DaySchedule and Timetable have the same
\* length, whatever the weekday and the shape of the source files, so that
\* every index selection accepts has both a name and a (start, end) pair.
C16_StoresHaveEqualLength ==
    (loads # <<>> /\ LastLoad.error = "none") => Len(LESSONS_LIST) = Len(TIME_TABLE)

(* -------------------------------- C17 ---------------------------------- *)

\* main() has just called get_next_lesson_index (asked of the step that does).
Selected == pc = "select" /\ i < loop_len /\ pc' # "select"

\* C17: slot selection is idempotent for a fixed now: the call leaves Timetable
\* and DaySchedule unchanged, and a second call at the same now, made in the
\* state the first one left, ends as the first did (the same index, which is the
\* one main() was given).
C17_SelectionIdempotent ==
    [][Selected
          => /\ TIME_TABLE' = TIME_TABLE
             /\ LESSONS_LIST' = LESSONS_LIST
             /\ now' = now
             /\ get_next_lesson_index(now)' = get_next_lesson_index(now)
             /\ pc' # "crashed" => next_lesson_index' = get_next_lesson_index(now)'.index]_vars

\* A call has returned an index past the head of the stores, leaving rows
\* behind that a second call goes over again.
C17_Witness == pc = "wait_start" /\ next_lesson_index > 0 /\ calls = <<>>

(* -------------------------------- C18 ---------------------------------- *)

\* delete_message is called at most once for an id, only for an id a successful
\* send_photo returned, and main() does not return with a message in flight.
RetractionIsOfSentOnce ==
    /\ \A d \in DOMAIN calls :
         IsDelete(d) =>
            /\ \E a \in SentOk : a < d /\ calls[a].message_id = calls[d].message_id
            /\ \A e \in DOMAIN calls :
                 (IsDelete(e) /\ calls[e].message_id = calls[d].message_id) => e = d
    /\ pc = "done" => InFlight = {}

\* C18: every successfully published message is retracted or the run ends in a
\* logged fatal failure: delete_message is called at most once for an id, and
\* only for an id an earlier successful send_photo returned; main() never returns
\* normally with a message awaiting retraction; and when an exception ends it
\* with one awaiting, the failure is the last line of the log.
C18_RetractedOrFailureLogged ==
    /\ RetractionIsOfSentOnce
    /\ (pc = "crashed" /\ InFlight # {}) => ~LastLog.is_success

(* -------------------------------- C19 ---------------------------------- *)

\* The keys the rows of a subjects file are stored under.
SubjectKeys(rows) == {lower(rows[k]) : k \in DOMAIN rows}

\* C19: a rebuild replaces the Subject Catalog wholesale: after a successful load
\* (here: every load so far having succeeded) the catalog holds exactly the
\* entries of the source just read.
C19_CatalogIsLastSource ==
    (loads # <<>> /\ \A k \in DOMAIN loads : loads[k].error = "none")
        => SUBJECTS_DICT = SubjectKeys(LastLoad.sf)

(* --------------- what holds beside C4, C9 and C18 ---------------------- *)

\* main() under a clock that advances and a delete_message that ends (by its
\* return or by an exception) once it is called.
SpecFair == Spec /\ WF_vars(Tick) /\ WF_vars(RetractLesson)

\* Once a message is sent, delete_message is eventually called for it.
RetractionIsAttempted == (pc = "wait_end") ~> (pc # "wait_end")

\* Every failed call on the bot is fatal, logged or not.
PublisherFailureIsFatal ==
    \A k \in DOMAIN calls : ~calls[k].ok => (k = Len(calls) /\ pc = "crashed")

\* Every failure of the bot that delete_message or send_message catches is logged.
CaughtPublisherFailureIsLogged ==
    \A k \in DOMAIN calls :
        (~calls[k].ok /\ exc # "RequestException")
            => (Len(log) > 0 /\ ~LastLog.is_success)

\* Whenever get_next_lesson_index returns, it returns the first future named slot.
SelectionResultWhenReturned ==
    [][(pc = "select" /\ i < loop_len /\ pc' \notin {"select", "crashed"})
          => next_lesson_index' = FirstFutureNamedSlot(now)]_vars

\* It returns whenever every row of TIME_TABLE has a name in LESSONS_LIST.
SelectionReturnsWhenNamesSuffice ==
    [][(pc = "select" /\ i < loop_len /\ Len(LESSONS_LIST) >= Len(TIME_TABLE))
          => pc' # "crashed"]_vars

====
